---- MODULE Spec2Model ----
(***************************************************************************)
(* A model of sdtm_export.sdtm_exporter.SDTMExporterBase and of            *)
(* sdtm_export.annotators.SequenceAnnotator: the tree-to-table traversal,  *)
(* the subtree export, the post-processing pipeline and the serializers.   *)
(*                                                                         *)
(* Python dicts are modelled with their insertion order (keys is the       *)
(* ordered key list, val the mapping); a pandas DataFrame is modelled by   *)
(* its ordered column list, its column value lists and its index labels.   *)
(* Every cell value is a string.                                           *)
(***************************************************************************)
EXTENDS Integers, Sequences, FiniteSets, TLC

\* Number of distinct values a leaf's VALUE attribute is drawn from.
MaxVal == 2

Range(s) == {s[i] : i \in DOMAIN s}

\* str(n) for the small naturals the model needs (astype(str) of a counter).
Digits == <<"0", "1", "2", "3", "4", "5", "6", "7", "8", "9">>
ToStr(n) == Digits[n + 1]

\* Python's ordering of the strings that occur as cell values: code point
\* order, so "" < digits < upper case < lower case.
StrOrder ==
    <<"", "0", "1", "2", "3", "4", "5", "6", "7", "8", "9",
      "EXAMPLE", "N", "No", "Test Name", "Y", "Yes", "kg", "p", "x">>
StrRank(s) == CHOOSE i \in DOMAIN StrOrder : StrOrder[i] = s

----------------------------------------------------------------------------
(* Python dict, insertion ordered *)

EmptyDict == [keys |-> <<>>, val |-> <<>>]
Has(d, k) == k \in Range(d.keys)

\* d[k] = v
Put(d, k, v) ==
    [keys |-> IF Has(d, k) THEN d.keys ELSE Append(d.keys, k),
     val  |-> [x \in Range(d.keys) \cup {k} |-> IF x = k THEN v ELSE d.val[x]]]

\* {**a, **b}
Merge(a, b) ==
    [keys |-> a.keys \o SelectSeq(b.keys, LAMBDA k : ~Has(a, k)),
     val  |-> [x \in Range(a.keys) \cup Range(b.keys) |->
                 IF Has(b, x) THEN b.val[x] ELSE a.val[x]]]

\* for k, v in nd.items(): data[k].extend(v)      (data is a defaultdict(list))
Extend(data, nd) ==
    [keys |-> data.keys \o SelectSeq(nd.keys, LAMBDA k : ~Has(data, k)),
     val  |-> [x \in Range(data.keys) \cup Range(nd.keys) |->
                 (IF Has(data, x) THEN data.val[x] ELSE <<>>)
                    \o (IF Has(nd, x) THEN nd.val[x] ELSE <<>>)]]

----------------------------------------------------------------------------
(* Exceptions *)

NoError == [type |-> "", msg |-> ""]
InvalidConfigurationError(m) == [type |-> "InvalidConfigurationError", msg |-> m]
ValueError(m) == [type |-> "ValueError", msg |-> m]
KeyError(m) == [type |-> "KeyError", msg |-> m]

----------------------------------------------------------------------------
(* The object graph: the models of test_app and the node configuration of  *)
(* ExampleSDTMExporter.                                                    *)

Node(t, i) == [type |-> t, id |-> i]
NoneNode == Node("None", 0)

Studies == {Node("Study", 1), Node("Study", 2)}
Participants == {Node("Participant", 1), Node("Participant", 2)}
Inputs == {Node("Input", 1), Node("Input", 2), Node("Input", 3)}
Nodes == Studies \cup Participants \cup Inputs

\* nodes = [(Study, "participants", None), (Participant, "inputs", "study"),
\*          (Input, None, "participant")]
nodes ==
    << <<"Study", "participants", "None">>,
       <<"Participant", "inputs", "study">>,
       <<"Input", "None", "participant">> >>
Types == {nodes[i][1] : i \in DOMAIN nodes}

_node_structure ==
    [t \in Types |->
        LET i == CHOOSE j \in DOMAIN nodes : nodes[j][1] = t
        IN  [child |-> nodes[i][2], parent |-> nodes[i][3]]]

----------------------------------------------------------------------------
VARIABLES
    parent,       \* the graph: each node's parent object (NoneNode for a study)
    visit,        \* the dict each node's visitor returns
    cfg,          \* the class attributes of the exporter subclass
    root,         \* self.root
    _node_cache,  \* self._node_cache
    visited,      \* the nodes whose visitor the last call invoked, in order
    result,       \* what the call in hand returned or raised
    sink,         \* the rows the call in hand wrote to its file
    calls         \* the traversals in progress when calls run step by step

vars == <<parent, visit, cfg, root, _node_cache, visited, result, sink, calls>>

\* _initialize_node_cache
_initialize_node_cache(r) ==
    [t \in Types |-> IF t = r.type THEN r ELSE NoneNode]

\* The visit that records nothing
RecordNode_skipped(cache, node) == cache

\* self._node_cache[node.__class__.__name__] = node
RecordNode(cache, node) == [cache EXCEPT ![node.type] = node]

\* _update_node_cache, applied for every node of a visit log in turn
RECURSIVE _update_node_cache(_, _)
_update_node_cache(cache, log) ==
    IF log = <<>> THEN cache
    ELSE _update_node_cache(RecordNode(cache, Head(log)), Tail(log))

_is_node_leaf(node) == _node_structure[node.type].child = "None"

\* The related objects of a node, in primary-key order.
RelatedObjects(node) ==
    LET S == {n \in Nodes : parent[n] = node}
    IN  CHOOSE s \in [1..Cardinality(S) -> S] :
            \A i, j \in 1..Cardinality(S) : i < j => s[i].id < s[j].id

_get_children(node) ==
    IF _node_structure[node.type].child = "None" THEN <<>> ELSE RelatedObjects(node)

_get_parent(node) ==
    IF _node_structure[node.type].parent = "None" THEN NoneNode ELSE parent[node]

\* {k: [v] for k, v in node_data.items()}
SingleRow(node_data) ==
    [keys |-> node_data.keys,
     val  |-> [k \in Range(node_data.keys) |-> <<node_data.val[k]>>]]

\* The assignment that leaves a column the children produced as it is
BroadcastColumn_if_absent(child_data, k, v, row_count) ==
    IF Has(child_data, k) THEN child_data
    ELSE Put(child_data, k, [j \in 1..row_count |-> v])

\* child_data[k] = [v] * row_count
BroadcastColumn(child_data, k, v, row_count) ==
    Put(child_data, k, [j \in 1..row_count |-> v])

\* for k, v in node_data.items(): child_data[k] = [v] * row_count
RECURSIVE Broadcast(_, _, _, _)
Broadcast(child_data, node_data, row_count, i) ==
    IF i > Len(node_data.keys) THEN child_data
    ELSE LET k == node_data.keys[i]
         IN  Broadcast(BroadcastColumn(child_data, k, node_data.val[k], row_count),
                       node_data, row_count, i + 1)

\* The broadcast that takes a row count of None for zero
BroadcastOver_none_as_zero(child_data, node_data, row_count) ==
    Broadcast(child_data, node_data, IF row_count = <<>> THEN 0 ELSE row_count[1], 1)

\* if row_count is not None: broadcast node_data over the children's rows
BroadcastOver(child_data, node_data, row_count) ==
    IF row_count # <<>> THEN Broadcast(child_data, node_data, row_count[1], 1)
    ELSE child_data

\* node_data = {**extra_data, **node_data} when extra_data is truthy
MergeExtra(extra_data, node_data) ==
    IF extra_data.keys # <<>> THEN Merge(extra_data, node_data) ELSE node_data

\* The check that takes the first column's length and raises nothing
RowCount_first_column(data) ==
    IF data.keys = <<>> THEN [err |-> NoError, row_count |-> <<>>]
    ELSE [err |-> NoError, row_count |-> <<Len(data.val[data.keys[1]])>>]

\* The row-count check that ends _export_list: row_count is <<>> for None.
RowCount(data) ==
    LET lens == {Len(data.val[k]) : k \in Range(data.keys)}
    IN  IF data.keys = <<>> THEN [err |-> NoError, row_count |-> <<>>]
        ELSE IF Cardinality(lens) > 1
        THEN [err |-> ValueError("Sibling nodes have differing row counts"),
              row_count |-> <<>>]
        ELSE [err |-> NoError, row_count |-> <<Len(data.val[data.keys[1]])>>]

RECURSIVE _export(_, _), _export_list(_, _, _, _)

\* _export: [err, data, log], log being the nodes visited in order.
_export(node, extra_data) ==
    LET node_data == MergeExtra(extra_data, visit[node])
    IN  IF _is_node_leaf(node)
        THEN [err |-> NoError, data |-> SingleRow(node_data), log |-> <<node>>]
        ELSE LET lst == _export_list(_get_children(node), 1, EmptyDict, <<>>)
             IN  IF lst.err # NoError
                 THEN [err |-> lst.err, data |-> EmptyDict, log |-> <<node>> \o lst.log]
                 ELSE [err  |-> NoError,
                       data |-> BroadcastOver(lst.data, node_data, lst.row_count),
                       log  |-> <<node>> \o lst.log]

\* _export_list: the loop over the children from position i on, then the check.
_export_list(children, i, data, log) ==
    IF i > Len(children)
    THEN LET rc == RowCount(data)
         IN  [err |-> rc.err, data |-> data, row_count |-> rc.row_count, log |-> log]
    ELSE LET r == _export(children[i], EmptyDict)
         IN  IF r.err # NoError
             THEN [err |-> r.err, data |-> data, row_count |-> <<>>, log |-> log \o r.log]
             ELSE _export_list(children, i + 1, Extend(data, r.data), log \o r.log)

\* The chain of ancestors of a node, nearest first (the while loop).
RECURSIVE PathToRoot(_)
PathToRoot(cur) ==
    IF cur = NoneNode THEN <<>> ELSE <<cur>> \o PathToRoot(_get_parent(cur))

Reverse(s) == [i \in 1..Len(s) |-> s[Len(s) + 1 - i]]

\* The merge in which the ancestor visited later overrides the context
ReplayStep_deeper_wins(node_data, parent_data) == Merge(parent_data, node_data)

\* parent_data = {**self._visit_node(n), **parent_data}
ReplayStep(node_data, parent_data) == Merge(node_data, parent_data)

\* for n in reversed(path_to_root): the replay of the ancestors' visitors
RECURSIVE ReplayAncestors(_, _, _)
ReplayAncestors(path, i, parent_data) ==
    IF i > Len(path) THEN parent_data
    ELSE ReplayAncestors(path, i + 1, ReplayStep(visit[path[i]], parent_data))

\* _export_subtree without the comparison of the chain's top with self.root
_export_subtree_unchecked(node) ==
    LET path_to_root == PathToRoot(_get_parent(node))
    IN  IF _get_parent(node) = NoneNode
        THEN [err |-> ValueError("Cannot export subtree for a root node"),
              data |-> EmptyDict, log |-> <<>>]
        ELSE LET top_down == Reverse(path_to_root)
                 r == _export(node, ReplayAncestors(top_down, 1, EmptyDict))
             IN  [err |-> r.err, data |-> r.data, log |-> top_down \o r.log]

\* _export_subtree that does not replay the ancestors' visitors
_export_subtree_no_replay(node) ==
    LET path_to_root == PathToRoot(_get_parent(node))
    IN  IF _get_parent(node) = NoneNode
        THEN [err |-> ValueError("Cannot export subtree for a root node"),
              data |-> EmptyDict, log |-> <<>>]
        ELSE IF root # path_to_root[Len(path_to_root)]
        THEN [err |-> ValueError("Subtree export doesn't match export visitor root"),
              data |-> EmptyDict, log |-> <<>>]
        ELSE _export(node, EmptyDict)

_export_subtree(node) ==
    LET path_to_root == PathToRoot(_get_parent(node))
    IN  IF _get_parent(node) = NoneNode
        THEN [err |-> ValueError("Cannot export subtree for a root node"),
              data |-> EmptyDict, log |-> <<>>]
        ELSE IF root # path_to_root[Len(path_to_root)]
        THEN [err |-> ValueError("Subtree export doesn't match export visitor root"),
              data |-> EmptyDict, log |-> <<>>]
        ELSE LET top_down == Reverse(path_to_root)
                 r == _export(node, ReplayAncestors(top_down, 1, EmptyDict))
             IN  [err |-> r.err, data |-> r.data, log |-> top_down \o r.log]

----------------------------------------------------------------------------
(* pandas.DataFrame: ordered columns, column value lists, index labels *)

EmptyFrame == [columns |-> <<>>, val |-> <<>>, index |-> <<>>]

\* DataFrame(data): a RangeIndex over the rows of the columns
DataFrame(data) ==
    [columns |-> data.keys,
     val     |-> data.val,
     index   |-> IF data.keys = <<>> THEN <<>>
                 ELSE [i \in 1..Len(data.val[data.keys[1]]) |-> i - 1]]

NRows(df) == Len(df.index)
InFrame(df, k) == k \in Range(df.columns)

\* data[k] = v for a scalar v
SetScalar(df, k, v) ==
    [columns |-> IF InFrame(df, k) THEN df.columns ELSE Append(df.columns, k),
     val     |-> [x \in Range(df.columns) \cup {k} |->
                    IF x = k THEN [i \in 1..NRows(df) |-> v] ELSE df.val[x]],
     index   |-> df.index]

\* data[k] = series, the series being aligned with the frame's rows
SetColumn(df, k, series) ==
    [columns |-> IF InFrame(df, k) THEN df.columns ELSE Append(df.columns, k),
     val     |-> [x \in Range(df.columns) \cup {k} |->
                    IF x = k THEN series ELSE df.val[x]],
     index   |-> df.index]

\* data[[c1, c2, ...]]
SelectColumns(df, cols) ==
    [columns |-> cols, val |-> [k \in Range(cols) |-> df.val[k]], index |-> df.index]

\* The frame with the row at position p[i] moved to position i.
Permute(df, p) ==
    [columns |-> df.columns,
     val     |-> [k \in Range(df.columns) |-> [i \in 1..NRows(df) |-> df.val[k][p[i]]]],
     index   |-> [i \in 1..NRows(df) |-> df.index[p[i]]]]

\* Row i of a frame as the list of its cells in column order (data.values[i]).
RowValues(df, i) == [c \in 1..Len(df.columns) |-> df.val[df.columns[c]][i]]

AllOrders(n) ==
    {p \in [1..n -> 1..n] : \A i, j \in 1..n : i # j => p[i] # p[j]}

----------------------------------------------------------------------------
(* Configuration values.  None is Python's None; an attribute that is      *)
(* either a string or a list is a record of its kind and its entries.      *)

None == "None"
Unset == [kind |-> "None", val |-> <<>>]
Str(s) == [kind |-> "str", val |-> <<s>>]
List(l) == [kind |-> "list", val |-> l]

\* bool(x) of such an attribute: None and the empty list are falsy
Truthy(x) == x.kind # "None" /\ x.val # <<>>

Oids == [i \in DOMAIN cfg.variables |-> cfg.variables[i].oid]

----------------------------------------------------------------------------
(* Post-processing *)

\* _add_domain
_add_domain(data) == SetScalar(data, cfg.domain_variable, cfg.domain)

\* _add_constants
RECURSIVE AddConstantsFrom(_, _), AddAbsentConstantsFrom(_, _)
AddConstantsFrom(data, i) ==
    IF i > Len(cfg.constants.keys) THEN data
    ELSE LET k == cfg.constants.keys[i]
         IN  AddConstantsFrom(SetScalar(data, k, cfg.constants.val[k]), i + 1)

\* _add_constants that leaves a column the traversal produced as it is
AddAbsentConstantsFrom(data, i) ==
    IF i > Len(cfg.constants.keys) THEN data
    ELSE LET k == cfg.constants.keys[i]
         IN  AddAbsentConstantsFrom(IF InFrame(data, k) THEN data
                                    ELSE SetScalar(data, k, cfg.constants.val[k]), i + 1)

_add_constants_if_absent(data) == AddAbsentConstantsFrom(data, 1)

_add_constants(data) == AddConstantsFrom(data, 1)

\* _add_missing_columns
RECURSIVE AddMissingFrom(_, _)
AddMissingFrom(data, i) ==
    IF i > Len(cfg.variables) THEN data
    ELSE AddMissingFrom(IF InFrame(data, cfg.variables[i].oid) THEN data
                        ELSE SetScalar(data, cfg.variables[i].oid, ""), i + 1)

_add_missing_columns(data) == AddMissingFrom(data, 1)

\* order = sort_order != "desc" if not a list else [o != "desc" for o in sort_order]
Ascending(sort_order) ==
    IF sort_order.kind = "list"
    THEN [kind |-> "list",
          val  |-> [i \in DOMAIN sort_order.val |-> sort_order.val[i] # "desc"]]
    ELSE [kind |-> "bool", val |-> <<sort_order # Str("desc")>>]

\* The comparison that takes every key as ascending
Before_ascending(df, by, asc, a, b) ==
    \E i \in DOMAIN by :
        /\ \A j \in 1..(i - 1) : df.val[by[j]][a] = df.val[by[j]][b]
        /\ StrRank(df.val[by[i]][a]) < StrRank(df.val[by[i]][b])

\* Row a sorts strictly before row b: the first key they differ on decides,
\* each key in its own direction.
Before(df, by, asc, a, b) ==
    \E i \in DOMAIN by :
        /\ \A j \in 1..(i - 1) : df.val[by[j]][a] = df.val[by[j]][b]
        /\ IF asc[i]
           THEN StrRank(df.val[by[i]][a]) < StrRank(df.val[by[i]][b])
           ELSE StrRank(df.val[by[i]][a]) > StrRank(df.val[by[i]][b])

Tied(df, by, a, b) == \A j \in DOMAIN by : df.val[by[j]][a] = df.val[by[j]][b]

\* The row orders DataFrame.sort_values(by, ascending) can leave: with several
\* keys pandas sorts with a stable lexsort; with one key it sorts with
\* kind="quicksort", which orders tied rows in no defined way.
SortOrders(df, by, asc) ==
    {p \in AllOrders(NRows(df)) :
        /\ \A i, j \in 1..NRows(df) : i < j => ~Before(df, by, asc, p[j], p[i])
        /\ Len(by) > 1 =>
              \A i, j \in 1..NRows(df) :
                  (i < j /\ Tied(df, by, p[i], p[j])) => p[i] < p[j]}

\* _sort, for given sort_by and sort_order: the set of [err, data] it can end in
_sort(data, sort_by, sort_order) ==
    IF ~Truthy(sort_by) THEN {[err |-> NoError, data |-> data]}
    ELSE LET by == sort_by.val
             order == Ascending(sort_order)
             asc == [i \in DOMAIN by |->
                        IF order.kind = "list" THEN order.val[i] ELSE order.val[1]]
         IN  IF order.kind = "list" /\ Len(order.val) # Len(by)
             THEN {[err |-> ValueError("Length of ascending != length of by"),
                    data |-> data]}
             ELSE IF \E i \in DOMAIN by : ~InFrame(data, by[i])
             THEN {[err |-> KeyError("sort_by"), data |-> data]}
             ELSE {[err |-> NoError, data |-> Permute(data, p)] :
                      p \in SortOrders(data, by, asc)}

\* data.groupby(group_by).cumcount() + 1, as strings
CumCount(data, group_by) ==
    [i \in 1..NRows(data) |->
        ToStr(Cardinality({j \in 1..i : Tied(data, group_by, i, j)}))]

\* SequenceAnnotator.header
header == "SEQUENCE_NUMBER"

\* SequenceAnnotator.annotate
SequenceAnnotator_annotate(annotator, data) ==
    LET group_by == IF Truthy(annotator.group_by) THEN annotator.group_by.val
                    ELSE cfg.sort_by.val
    IN  IF \E i \in DOMAIN cfg.variables : cfg.variables[i].name = header
        THEN LET v == CHOOSE i \in DOMAIN cfg.variables : cfg.variables[i].name = header
             IN  IF \E i \in DOMAIN group_by : ~InFrame(data, group_by[i])
                 THEN [err |-> KeyError("group_by"), data |-> data]
                 ELSE [err  |-> NoError,
                       data |-> SetColumn(data, cfg.variables[v].oid,
                                          CumCount(data, group_by))]
        ELSE [err  |-> InvalidConfigurationError("a header must be set on the annotator"),
              data |-> data]

\* _annotate
_annotate(data) ==
    IF cfg.annotators.kind # "None"
    THEN IF ~Truthy(cfg.sort_by)
         THEN [err |-> InvalidConfigurationError("sort by must be set"), data |-> data]
         ELSE SequenceAnnotator_annotate(cfg.annotators, data)
    ELSE [err |-> NoError, data |-> data]

\* _post_process returning the frame without selecting the schema columns
OrderColumns_skipped(data) == data

\* The last line of _post_process: data[[v.oid for v in self.variables]]
OrderColumns(data) == SelectColumns(data, Oids)

\* _post_process that annotates before it sorts
_post_process_annotate_first(data, sort_order) ==
    LET completed == _add_missing_columns(_add_constants(_add_domain(data)))
        a == _annotate(completed)
    IN  IF a.err # NoError THEN {[err |-> a.err, data |-> EmptyFrame]}
        ELSE {IF s.err # NoError THEN [err |-> s.err, data |-> EmptyFrame]
              ELSE [err |-> NoError, data |-> OrderColumns(s.data)] :
                 s \in _sort(a.data, cfg.sort_by, sort_order)}

\* _post_process under a given sort_order: the set of [err, data] it can end in
_post_process(data, sort_order) ==
    LET completed == _add_missing_columns(_add_constants(_add_domain(data)))
    IN  {IF s.err # NoError THEN [err |-> s.err, data |-> EmptyFrame]
         ELSE LET a == _annotate(s.data)
              IN  IF a.err # NoError THEN [err |-> a.err, data |-> EmptyFrame]
                  ELSE [err |-> NoError, data |-> OrderColumns(a.data)] :
            s \in _sort(completed, cfg.sort_by, sort_order)}

\* The traversal of export: _export_subtree or _export(self.root)
Traverse(subtree_node) ==
    IF subtree_node # NoneNode THEN _export_subtree(subtree_node)
    ELSE _export(root, EmptyDict)

\* export under a given sort_order: the set of [err, data, log] a call can end in
ExportUnder(subtree_node, sort_order) ==
    IF cfg.domain = None \/ cfg.domain_variable = None
    THEN {[err  |-> InvalidConfigurationError("domain and domain_variable must be set"),
           data |-> EmptyFrame, log |-> <<>>]}
    ELSE LET t == Traverse(subtree_node)
         IN  IF t.err # NoError
             THEN {[err |-> t.err, data |-> EmptyFrame, log |-> t.log]}
             ELSE {[err |-> o.err, data |-> o.data, log |-> t.log] :
                      o \in _post_process(DataFrame(t.data), sort_order)}

\* export as configured
ExportOutcomes(subtree_node) == ExportUnder(subtree_node, cfg.sort_order)

----------------------------------------------------------------------------
(* Serializers *)

NoDoc == [studyOID |-> <<>>, name |-> None, label |-> None, records |-> 0,
          items |-> <<>>, itemData |-> <<>>]

\* get_study_id, for a given node cache: <<>> is None
get_study_id(cache) ==
    IF cache["Study"] # NoneNode THEN <<cache["Study"].id>> ELSE <<>>

\* _write_csv_disclaimer
_write_csv_disclaimer ==
    IF cfg.csv_export_disclaimer_text # None
    THEN << <<cfg.csv_export_disclaimer_text>> >> ELSE <<>>

\* utils.format_value, on the string cells: "Yes" and "No" are abbreviated,
\* any other string is returned as it is.
format_value(value) ==
    IF value = "Yes" THEN "Y" ELSE IF value = "No" THEN "N" ELSE value

\* to_csv writing every body cell through format_value
to_csv_formatted(data, headers) ==
    <<headers>> \o [i \in 1..NRows(data) |->
                      [c \in 1..Len(data.columns) |-> format_value(RowValues(data, i)[c])]]

\* data.to_csv(file, header=headers, index=False)
to_csv(data, headers) ==
    <<headers>> \o [i \in 1..NRows(data) |-> RowValues(data, i)]

\* data[oid][0]: the cell of the row labelled 0
CellAtLabel0(data, oid) ==
    data.val[oid][CHOOSE i \in 1..NRows(data) : data.index[i] = 0]

\* The check that rejects only an empty table
TransposeError_empty_only(data) ==
    IF NRows(data) < 1
    THEN ValueError("Can only transpose an export of exactly one row")
    ELSE NoError

\* if len(data) != 1: raise ValueError
TransposeError(data) ==
    IF NRows(data) # 1
    THEN ValueError("Can only transpose an export of exactly one row")
    ELSE NoError

\* The rows _export_to_csv_single_row_transposed writes after the disclaimer
TransposedRows(data) ==
    << <<"Name", "Value", "Description">> >>
       \o [i \in DOMAIN cfg.variables |->
              <<cfg.variables[i].oid, CellAtLabel0(data, cfg.variables[i].oid),
                cfg.variables[i].name>>]

\* The document with itemData listed column by column
JsonDocument_by_column(data, cache) ==
    [studyOID |-> get_study_id(cache),
     name     |-> cfg.domain,
     label    |-> cfg.label,
     records  |-> NRows(data),
     itemData |-> [c \in DOMAIN Oids |-> data.val[Oids[c]]],
     items    |-> [i \in DOMAIN cfg.variables |->
                     [OID    |-> <<"IT.", cfg.variables[i].oid>>,
                      name   |-> cfg.variables[i].name,
                      label  |-> cfg.variables[i].cdisc_label,
                      type   |-> cfg.variables[i].type,
                      length |-> cfg.variables[i].length]]]

\* The document export_to_json returns; "IT." + oid is the pair <<"IT.", oid>>
JsonDocument(data, cache) ==
    LET ordered == SelectColumns(data, Oids)
    IN  [studyOID |-> get_study_id(cache),
         name     |-> cfg.domain,
         label    |-> cfg.label,
         records  |-> NRows(ordered),
         itemData |-> [i \in 1..NRows(ordered) |-> RowValues(ordered, i)],
         items    |-> [i \in DOMAIN cfg.variables |->
                         [OID    |-> <<"IT.", cfg.variables[i].oid>>,
                          name   |-> cfg.variables[i].name,
                          label  |-> cfg.variables[i].cdisc_label,
                          type   |-> cfg.variables[i].type,
                          length |-> cfg.variables[i].length]]]

----------------------------------------------------------------------------
(* The configurations and graphs the exporter is run on *)

Variable(name, oid, cdisc_label, length) ==
    [name |-> name, oid |-> oid, cdisc_label |-> cdisc_label, type |-> "Char",
     length |-> length]

\* tests/test_sdtm_exporter.py: Variables
Variables ==
    << Variable("STUDY_NAME", "STUDY_NAME", "Study Name", "200"),
       Variable("DOMAIN", "DOMAIN", "Domain", "200"),
       Variable("SUBJECT_ID", "SUBJECT_ID", "Subject Id", "24"),
       Variable("VALUE", "VALUE", "Value", "200"),
       Variable("UNIT", "UNIT", "Unit", "200"),
       Variable("TEST_CONSTANT", "CONST", "Test Constant", "200") >>

\* tests/test_sdtm_exporter.py: AnnotatedVariables
AnnotatedVariables ==
    Variables \o << Variable("SEQUENCE_NUMBER", "SEQUENCE_NUMBER", "Sequence Number", "200") >>

MkDict(keys, f) == [keys |-> keys, val |-> [k \in Range(keys) |-> f[k]]]

\* What the visitors read from a node
StudyAttrs(n) == [k \in {"STUDY_NAME"} |-> "Test Name"]
ParticipantAttrs(n) ==
    [k \in {"SUBJECT_ID", "STUDY_NAME", "VALUE"} |->
        IF k = "SUBJECT_ID" THEN ToStr(n.id) ELSE "p"]
InputAttrs(n, value) ==
    [k \in {"VALUE", "UNIT", "EXTRA", "CONST"} |->
        IF k = "VALUE" THEN ToStr(value) ELSE IF k = "UNIT" THEN "kg" ELSE "x"]

\* The key lists the visitors return, in the order they insert them.
StudyKeys == <<"STUDY_NAME">>
ParticipantKeys == {<<"SUBJECT_ID">>, <<"VALUE", "SUBJECT_ID", "STUDY_NAME">>}
InputKeys == {<<"VALUE", "UNIT">>, <<"VALUE">>, <<"UNIT">>, <<>>}
RichInputKeys == <<"EXTRA", "CONST", "VALUE">>

Visitors(pkeys, ikeys, value) ==
    [n \in Nodes |->
        IF n.type = "Study" THEN MkDict(StudyKeys, StudyAttrs(n))
        ELSE IF n.type = "Participant" THEN MkDict(pkeys, ParticipantAttrs(n))
        ELSE MkDict(ikeys[n], InputAttrs(n, value[n]))]

\* tests/test_sdtm_exporter_csv.py: inputs answering "Yes", "No" and "10"
ResponseAttrs(n) ==
    [k \in {"VALUE", "UNIT"} |->
        IF k = "UNIT" THEN (IF n.id = 3 THEN "kg" ELSE "")
        ELSE IF n.id = 1 THEN "Yes" ELSE IF n.id = 2 THEN "No" ELSE "10"]

ResponseVisitors ==
    [n \in Nodes |->
        IF n.type = "Study" THEN MkDict(StudyKeys, StudyAttrs(n))
        ELSE IF n.type = "Participant" THEN MkDict(<<"SUBJECT_ID">>, ParticipantAttrs(n))
        ELSE MkDict(<<"VALUE", "UNIT">>, ResponseAttrs(n))]

\* The graph with the given parents of participant 2 and of inputs 2 and 3.
Graph(p2, i2, i3) ==
    [n \in Nodes |->
        IF n.type = "Study" THEN NoneNode
        ELSE IF n.type = "Participant"
        THEN (IF n.id = 1 THEN Node("Study", 1) ELSE p2)
        ELSE (IF n.id = 1 THEN Node("Participant", 1)
              ELSE IF n.id = 2 THEN i2 ELSE i3)]

\* Leaf values that cycle through 1..MaxVal.
CycleValues == [n \in Inputs |-> ((n.id - 1) % MaxVal) + 1]

\* tests/test_sdtm_exporter.py: ExampleSDTMExporter
ExampleConfig ==
    [variables |-> Variables,
     constants |-> MkDict(<<"CONST">>, [k \in {"CONST"} |-> "0"]),
     domain |-> "EXAMPLE",
     domain_variable |-> "DOMAIN",
     label |-> "Example",
     sort_by |-> Unset,
     sort_order |-> Unset,
     annotators |-> [kind |-> "None", group_by |-> Unset],
     csv_export_disclaimer_text |-> "Test disclaimer"]

SequenceAnnotator(group_by) == [kind |-> "SequenceAnnotator", group_by |-> group_by]
NoAnnotator == [kind |-> "None", group_by |-> Unset]

NoResult ==
    [op |-> "none", subtree_node |-> NoneNode, err |-> NoError, data |-> EmptyFrame,
     doc |-> NoDoc]

\* The callers that may hold a call in progress on the one exporter instance.
Callers == {1, 2}

\* A traversal in progress: the visits the call makes (log), those still to
\* come (todo), the node whose visitor ran last (at), the cache that visitor
\* read through get_ancestor (got), and whether another call has visited a
\* node between two visits of this call (crossed).
NoCall ==
    [log |-> <<>>, todo |-> <<>>, at |-> NoneNode,
     got |-> [t \in Types |-> NoneNode], crossed |-> FALSE]
NoCalls == [c \in Callers |-> NoCall]

\* The state after SDTMExporterBase.__init__(root)
Constructed ==
    /\ calls = NoCalls
    /\ root = Node("Study", 1)
    /\ _node_cache = _initialize_node_cache(root)
    /\ visited = <<>>
    /\ result = NoResult
    /\ sink = <<>>

\* Graphs of every shape, visitors that return differing key sets.
InitTree ==
    /\ \E p2 \in Studies, i2, i3 \in Participants : parent = Graph(p2, i2, i3)
    /\ \E pkeys \in ParticipantKeys, ikeys \in [Inputs -> InputKeys] :
          visit = Visitors(pkeys, ikeys, CycleValues)
    /\ cfg = ExampleConfig
    /\ Constructed

\* One graph with every choice of leaf values, every sorting and annotation.
SortBys == {Str("VALUE"), List(<<"SUBJECT_ID">>), List(<<"SUBJECT_ID", "VALUE">>)}
SortOrders_ ==
    {Unset, Str("asc"), Str("desc"), List(<<"desc">>), List(<<"asc", "desc">>),
     List(<<"desc", "asc">>)}
Annotators ==
    {NoAnnotator, SequenceAnnotator(Unset), SequenceAnnotator(List(<<"SUBJECT_ID">>))}

InitSort ==
    /\ \E i3 \in Participants :
          parent = Graph(Node("Study", 1), Node("Participant", 1), i3)
    /\ \E value \in [Inputs -> 1..MaxVal] :
          visit = Visitors(<<"SUBJECT_ID">>, [n \in Inputs |-> <<"VALUE", "UNIT">>], value)
    /\ \E sort_by \in SortBys \cup {Unset}, sort_order \in SortOrders_,
          annotators \in Annotators, variables \in {Variables, AnnotatedVariables} :
          /\ sort_by = Unset => sort_order = Unset
          /\ cfg = [ExampleConfig EXCEPT !.sort_by = sort_by, !.sort_order = sort_order,
                                        !.annotators = annotators,
                                        !.variables = variables]
    /\ Constructed

\* One graph with every choice of the other class attributes.
ConstantsChoices ==
    {ExampleConfig.constants,
     MkDict(<<"SEQUENCE_NUMBER", "CONST", "EXTRA">>,
            [k \in {"SEQUENCE_NUMBER", "CONST", "EXTRA"} |-> "0"])}

InitConfig ==
    /\ parent = Graph(Node("Study", 1), Node("Participant", 1), Node("Participant", 1))
    /\ \/ \E ikeys \in {<<"VALUE", "UNIT">>, RichInputKeys} :
             visit = Visitors(<<"SUBJECT_ID">>, [n \in Inputs |-> ikeys], CycleValues)
       \/ visit = ResponseVisitors
    /\ \E domain \in {"EXAMPLE", None}, domain_variable \in {"DOMAIN", None},
          label \in {"Example", None}, text \in {"Test disclaimer", None},
          constants \in ConstantsChoices,
          sort_by \in {Unset, List(<<"SUBJECT_ID">>)},
          annotators \in {NoAnnotator, SequenceAnnotator(Unset)},
          variables \in {Variables, AnnotatedVariables} :
          cfg = [variables |-> variables, constants |-> constants, domain |-> domain,
                 domain_variable |-> domain_variable, label |-> label,
                 sort_by |-> sort_by, sort_order |-> Unset, annotators |-> annotators,
                 csv_export_disclaimer_text |-> text]
    /\ Constructed

Init == InitTree \/ InitSort \/ InitConfig

----------------------------------------------------------------------------
(* The calls.  A call runs to its end in one step; the caller then drops *)
(* what it got before it calls again.                                      *)

SubtreeArgs == Nodes \cup {NoneNode}

Idle == result.op = "none"

\* export(subtree_node)
export(subtree_node) ==
    /\ Idle
    /\ \E o \in ExportOutcomes(subtree_node) :
        /\ result' = [op |-> "export", subtree_node |-> subtree_node, err |-> o.err,
                      data |-> o.data, doc |-> NoDoc]
        /\ visited' = o.log
        /\ _node_cache' = _update_node_cache(_node_cache, o.log)
        /\ UNCHANGED <<calls, parent, visit, cfg, root, sink>>

\* export_to_csv(file, subtree_node), options without transpose
_export_to_csv(subtree_node) ==
    /\ Idle
    /\ \E o \in ExportOutcomes(subtree_node) :
        /\ result' = [op |-> "export_to_csv", subtree_node |-> subtree_node,
                      err |-> o.err, data |-> o.data, doc |-> NoDoc]
        /\ visited' = o.log
        /\ _node_cache' = _update_node_cache(_node_cache, o.log)
        /\ sink' = _write_csv_disclaimer
                      \o (IF o.err = NoError THEN to_csv(o.data, Oids) ELSE <<>>)
        /\ UNCHANGED <<calls, parent, visit, cfg, root>>

\* The transposed export that writes its header line before it exports
_export_to_csv_single_row_transposed_header_first(subtree_node) ==
    /\ Idle
    /\ \E o \in ExportOutcomes(subtree_node) :
        LET err == IF o.err # NoError THEN o.err ELSE TransposeError(o.data)
        IN  /\ result' = [op |-> "export_to_csv_transposed",
                          subtree_node |-> subtree_node, err |-> err,
                          data |-> o.data, doc |-> NoDoc]
            /\ visited' = o.log
            /\ _node_cache' = _update_node_cache(_node_cache, o.log)
            /\ sink' = _write_csv_disclaimer
                          \o << <<"Name", "Value", "Description">> >>
                          \o (IF err = NoError THEN Tail(TransposedRows(o.data)) ELSE <<>>)
            /\ UNCHANGED <<calls, parent, visit, cfg, root>>

\* export_to_csv(file, subtree_node, {"transpose": True})
_export_to_csv_single_row_transposed(subtree_node) ==
    /\ Idle
    /\ \E o \in ExportOutcomes(subtree_node) :
        LET err == IF o.err # NoError THEN o.err ELSE TransposeError(o.data)
        IN  /\ result' = [op |-> "export_to_csv_transposed",
                          subtree_node |-> subtree_node, err |-> err,
                          data |-> o.data, doc |-> NoDoc]
            /\ visited' = o.log
            /\ _node_cache' = _update_node_cache(_node_cache, o.log)
            /\ sink' = _write_csv_disclaimer
                          \o (IF err = NoError THEN TransposedRows(o.data) ELSE <<>>)
            /\ UNCHANGED <<calls, parent, visit, cfg, root>>

\* export_to_json(subtree_node)
export_to_json(subtree_node) ==
    /\ Idle
    /\ IF cfg.label = None
       THEN /\ result' = [op |-> "export_to_json", subtree_node |-> subtree_node,
                          err |-> InvalidConfigurationError("label attribute is required for json export"),
                          data |-> EmptyFrame, doc |-> NoDoc]
            /\ visited' = <<>>
            /\ UNCHANGED <<calls, parent, visit, cfg, root, _node_cache, sink>>
       ELSE \E o \in ExportOutcomes(subtree_node) :
               LET cache == _update_node_cache(_node_cache, o.log)
               IN  /\ result' = [op |-> "export_to_json", subtree_node |-> subtree_node,
                                 err |-> o.err, data |-> o.data,
                                 doc |-> IF o.err = NoError
                                         THEN JsonDocument(o.data, cache) ELSE NoDoc]
                   /\ visited' = o.log
                   /\ _node_cache' = cache
                   /\ UNCHANGED <<calls, parent, visit, cfg, root, sink>>

\* The caller drops the table, document or file of the call and is free to
\* call again; the exporter keeps its node cache.
Discard ==
    /\ ~Idle
    /\ result' = NoResult
    /\ visited' = <<>>
    /\ sink' = <<>>
    /\ UNCHANGED <<calls, parent, visit, cfg, root, _node_cache>>

Next ==
    \/ \E n \in SubtreeArgs : export(n)
    \/ \E n \in SubtreeArgs : _export_to_csv(n)
    \/ \E n \in SubtreeArgs : _export_to_csv_single_row_transposed(n)
    \/ \E n \in SubtreeArgs : export_to_json(n)
    \/ Discard

Spec == Init /\ [][Next]_vars

----------------------------------------------------------------------------
(* Calls that run visit by visit, so that two calls on the one instance can *)
(* interleave.                                                              *)

InitConcurrent ==
    /\ parent = Graph(Node("Study", 1), Node("Participant", 1), Node("Participant", 2))
    /\ visit = Visitors(<<"SUBJECT_ID">>, [n \in Inputs |-> <<"VALUE", "UNIT">>], CycleValues)
    /\ cfg = ExampleConfig
    /\ Constructed

Begun(c) == calls[c].log # <<>>

\* Caller c has run a visitor and has visits still to come.
MidTraversal(c) == calls[c].at # NoneNode /\ calls[c].todo # <<>>

\* export(subtree_node) entered by caller c: the visits its traversal makes
begin_export(c, subtree_node) ==
    /\ ~Begun(c)
    /\ Traverse(subtree_node).err = NoError
    /\ calls' = [calls EXCEPT ![c] =
                    [NoCall EXCEPT !.log = Traverse(subtree_node).log,
                                   !.todo = Traverse(subtree_node).log]]
    /\ UNCHANGED <<parent, visit, cfg, root, _node_cache, visited, result, sink>>

\* _visit_node(node) by caller c: the cache is updated, then the visitor runs
\* and reads it
_visit_node(c) ==
    /\ calls[c].todo # <<>>
    /\ LET node == Head(calls[c].todo)
       IN  /\ _node_cache' = RecordNode(_node_cache, node)
           /\ calls' = [d \in Callers |->
                          IF d = c
                          THEN [calls[c] EXCEPT !.todo = Tail(calls[c].todo),
                                                !.at = node,
                                                !.got = _node_cache']
                          ELSE IF MidTraversal(d) THEN [calls[d] EXCEPT !.crossed = TRUE]
                          ELSE calls[d]]
    /\ UNCHANGED <<parent, visit, cfg, root, visited, result, sink>>

\* export returns to caller c
end_export(c) ==
    /\ Begun(c) /\ calls[c].todo = <<>>
    /\ calls' = [calls EXCEPT ![c] = NoCall]
    /\ UNCHANGED <<parent, visit, cfg, root, _node_cache, visited, result, sink>>

NextConcurrent ==
    \/ \E c \in Callers, n \in SubtreeArgs : begin_export(c, n)
    \/ \E c \in Callers : _visit_node(c)
    \/ \E c \in Callers : end_export(c)

SpecConcurrent == InitConcurrent /\ [][NextConcurrent]_vars

----------------------------------------------------------------------------
(* What the claims speak of *)

Done == result.op # "none"
Succeeded == Done /\ result.err = NoError
FullExport == result.subtree_node = NoneNode

\* The nodes reachable from n through the child relation, n included.
RECURSIVE Descendants(_)
Descendants(n) ==
    {n} \cup UNION {Descendants(c) : c \in {m \in Nodes : parent[m] = n}}

LeavesUnder(n) == {m \in Descendants(n) : _node_structure[m.type].child = "None"}

\* The leaves under n in the order a traversal meets them.
RECURSIVE LeafSeq(_)
RECURSIVE ConcatLeaves(_, _)
ConcatLeaves(children, i) ==
    IF i > Len(children) THEN <<>>
    ELSE LeafSeq(children[i]) \o ConcatLeaves(children, i + 1)
LeafSeq(n) ==
    IF _node_structure[n.type].child = "None" THEN <<n>>
    ELSE ConcatLeaves(RelatedObjects(n), 1)

\* The topmost node of the parent chain of n.
RECURSIVE TopAncestor(_)
TopAncestor(n) == IF parent[n] = NoneNode THEN n ELSE TopAncestor(parent[n])

\* The index labels a full export gives the rows of the leaves under n.
LabelsUnder(n) ==
    {i - 1 : i \in {j \in DOMAIN LeafSeq(root) : LeafSeq(root)[j] \in LeavesUnder(n)}}

\* The rows of sub are the rows of full at the given labels, in some order.
SameRows(sub, full, labels) ==
    LET pos == {i \in 1..NRows(full) : full.index[i] \in labels}
    IN  \E f \in [1..NRows(sub) -> pos] :
            /\ \A i, j \in 1..NRows(sub) : i # j => f[i] # f[j]
            /\ \A q \in pos : \E i \in 1..NRows(sub) : f[i] = q
            /\ \A i \in 1..NRows(sub) : RowValues(sub, i) = RowValues(full, f[i])

\* C1: a full export that completes without error returns as many rows as
\* there are leaf nodes reachable from the root.
C1_FullExportRowCount ==
    (Succeeded /\ FullExport) =>
        NRows(result.data) = Cardinality(LeavesUnder(root))

\* C2: a subtree export of N that completes returns exactly the rows the full
\* export has for the leaves under N, with the same value in every column.
C2_SubtreeEqualsFull ==
    (Succeeded /\ ~FullExport) =>
        \A full \in ExportOutcomes(NoneNode) :
            full.err = NoError =>
                SameRows(result.data, full.data, LabelsUnder(result.subtree_node))

\* C3: a subtree export of a node without parent, or of a node whose parent
\* chain does not end at the exporter's root, raises an error (ValueError when
\* the configuration is valid) and returns no table, document or table row.
C3_SubtreeRejected ==
    (Done /\ ~FullExport
          /\ (parent[result.subtree_node] = NoneNode
                \/ TopAncestor(result.subtree_node) # root)) =>
        /\ result.err # NoError
        /\ result.data = EmptyFrame /\ result.doc = NoDoc
        /\ sink \in {<<>>, _write_csv_disclaimer}
        /\ (result.err.type # "InvalidConfigurationError" =>
               result.err = IF parent[result.subtree_node] = NoneNode
                            THEN ValueError("Cannot export subtree for a root node")
                            ELSE ValueError("Subtree export doesn't match export visitor root"))

C3_Witness ==
    /\ result.op = "export"
    /\ result.subtree_node.type = "Input"
    /\ TopAncestor(result.subtree_node) = Node("Study", 2)
    /\ result.err = ValueError("Subtree export doesn't match export visitor root")

\* The columns the visitors invoked by the call returned.
ProducedByVisitor(k) == \E i \in DOMAIN visited : Has(visit[visited[i]], k)

\* The column a configured annotator writes.
AnnotatorTargets ==
    IF cfg.annotators.kind = "None" THEN {}
    ELSE {cfg.variables[i].oid : i \in {j \in DOMAIN cfg.variables :
                                            cfg.variables[j].name = header}}

AllCells(T, k, v) == \A r \in 1..NRows(T) : T.val[k][r] = v

\* C4 as stated: the table has exactly the schema's columns in schema order,
\* and every schema column that neither a visitor nor a constant produced
\* holds the empty string in every row.
C4_SchemaColumnsAsStated ==
    Succeeded =>
        /\ result.data.columns = Oids
        /\ \A k \in Range(Oids) :
              (~ProducedByVisitor(k) /\ ~Has(cfg.constants, k)) =>
                  AllCells(result.data, k, "")

\* C4 amended: the table has exactly the schema's columns in schema order, and
\* every schema column that no visitor, no constant, the domain setting and no
\* annotator produced holds the empty string in every row.
C4_SchemaColumns ==
    Succeeded =>
        /\ result.data.columns = Oids
        /\ \A k \in Range(Oids) :
              (/\ ~ProducedByVisitor(k) /\ ~Has(cfg.constants, k)
               /\ k # cfg.domain_variable /\ k \notin AnnotatorTargets) =>
                  AllCells(result.data, k, "")

C4_Witness ==
    /\ Succeeded /\ NRows(result.data) > 1
    /\ ProducedByVisitor("EXTRA") /\ ~ProducedByVisitor("UNIT")
    /\ AllCells(result.data, "UNIT", "")
    /\ result.data.columns = Oids

\* C5 as stated: for every column named in constants, every row of the table
\* carries the constant's value in that column.
C5_ConstantsAsStated ==
    Succeeded =>
        \A k \in Range(cfg.constants.keys) :
            InFrame(result.data, k) /\ AllCells(result.data, k, cfg.constants.val[k])

\* C5 amended: for every schema column named in constants that is not the
\* target column of a configured annotator, every row of the table carries
\* the constant's value, whatever the visitors returned for that column.
C5_Constants ==
    Succeeded =>
        \A k \in Range(cfg.constants.keys) \cap Range(Oids) :
            k \notin AnnotatorTargets =>
                InFrame(result.data, k) /\ AllCells(result.data, k, cfg.constants.val[k])

C5_Witness ==
    /\ Succeeded /\ NRows(result.data) > 1
    /\ \E i \in DOMAIN visited :
          /\ Has(visit[visited[i]], "CONST")
          /\ visit[visited[i]].val["CONST"] # cfg.constants.val["CONST"]
    /\ AllCells(result.data, "CONST", cfg.constants.val["CONST"])

\* The i-th sort key is descending: the i-th entry of a list-valued
\* sort_order, the scalar sort_order for every key, ascending when unset.
Descending(i) ==
    IF cfg.sort_order.kind = "list" THEN cfg.sort_order.val[i] = "desc"
    ELSE cfg.sort_order = Str("desc")

TiedOnSortKeys(T, a, b) ==
    \A k \in Range(cfg.sort_by.val) : T.val[k][a] = T.val[k][b]

\* Row a belongs strictly before row b by the sort keys in order of priority.
RowPrecedes(T, a, b) ==
    \E i \in DOMAIN cfg.sort_by.val :
        /\ \A j \in 1..(i - 1) : T.val[cfg.sort_by.val[j]][a] = T.val[cfg.sort_by.val[j]][b]
        /\ IF Descending(i)
           THEN StrRank(T.val[cfg.sort_by.val[i]][a]) > StrRank(T.val[cfg.sort_by.val[i]][b])
           ELSE StrRank(T.val[cfg.sort_by.val[i]][a]) < StrRank(T.val[cfg.sort_by.val[i]][b])

\* C6: with sort_by set, no row of the table belongs strictly before a row
\* that stands above it, the keys compared in order of priority and each in
\* the direction sort_order gives it.
C6_SortedByKeys ==
    (Succeeded /\ Truthy(cfg.sort_by)) =>
        \A a, b \in 1..NRows(result.data) :
            a < b => ~RowPrecedes(result.data, b, a)

C6_Witness ==
    /\ Succeeded /\ cfg.sort_order = List(<<"asc", "desc">>)
    /\ NRows(result.data) > 2
    /\ \E a \in 1..(NRows(result.data) - 1) :
          /\ result.data.val["SUBJECT_ID"][a] = result.data.val["SUBJECT_ID"][a + 1]
          /\ StrRank(result.data.val["VALUE"][a]) > StrRank(result.data.val["VALUE"][a + 1])
          /\ result.data.index[a] > result.data.index[a + 1]
    /\ \E a \in 1..(NRows(result.data) - 1) :
          StrRank(result.data.val["SUBJECT_ID"][a])
              < StrRank(result.data.val["SUBJECT_ID"][a + 1])

\* C7: two rows that are equal on every sort key keep the relative order the
\* traversal gave them (the index labels are the traversal positions).
C7_SortStable ==
    (Succeeded /\ Truthy(cfg.sort_by)) =>
        \A a, b \in 1..NRows(result.data) :
            (a < b /\ TiedOnSortKeys(result.data, a, b)) =>
                result.data.index[a] < result.data.index[b]

\* The keys a configured SequenceAnnotator groups by.
GroupKeys ==
    IF Truthy(cfg.annotators.group_by) THEN cfg.annotators.group_by.val
    ELSE cfg.sort_by.val

Annotated == Succeeded /\ cfg.annotators.kind = "SequenceAnnotator"

SameGroup(T, a, b) == \A k \in Range(GroupKeys) : T.val[k][a] = T.val[k][b]
GroupOf(T, a) == {b \in 1..NRows(T) : SameGroup(T, a, b)}

\* The rows of each group carry 1, 2, ..., n in the order they stand in T.
NumberedInOrder(T) ==
    \A a \in 1..NRows(T) :
        T.val[header][a] = ToStr(Cardinality({b \in GroupOf(T, a) : b <= a}))

\* sort_order with every direction reversed
FlipOrder(sort_order) ==
    IF sort_order.kind = "list"
    THEN List([i \in DOMAIN sort_order.val |->
                  IF sort_order.val[i] = "desc" THEN "asc" ELSE "desc"])
    ELSE IF sort_order = Str("desc") THEN Str("asc") ELSE Str("desc")

\* The same call under the reversed sort_order gives the row of T at position
\* a the number counted from the other end of its group.
NumberReversed(T, T2, a) ==
    LET a2 == CHOOSE r \in 1..NRows(T2) : T2.index[r] = T.index[a]
        n  == Cardinality(GroupOf(T, a))
        k  == Cardinality({b \in GroupOf(T, a) : b <= a})
    IN  T2.val[header][a2] = ToStr(n + 1 - k)

\* No two rows of the group of row a are equal on every sort key.
GroupDiffersOnSortKeys(T, a) ==
    \A b, c \in GroupOf(T, a) : b # c => ~TiedOnSortKeys(T, b, c)

C9_ConfigErrorsBeforeTraversal ==
    (Done /\ result.err.type = "InvalidConfigurationError") => visited = <<>>

\* The rows a transposed export of the one-row table T has to write.
ExpectedTransposed(T) ==
    (IF cfg.csv_export_disclaimer_text = None THEN <<>>
     ELSE << <<cfg.csv_export_disclaimer_text>> >>)
       \o << <<"Name", "Value", "Description">> >>
       \o [i \in DOMAIN cfg.variables |->
              <<cfg.variables[i].oid, T.val[cfg.variables[i].oid][1],
                cfg.variables[i].name>>]

\* C10: a transposed export succeeds only on a table of exactly one row, a
\* table of any other size raises ValueError, and on success the file holds
\* the disclaimer if configured, the header and one line per schema variable.
C10_Transposed ==
    result.op = "export_to_csv_transposed" =>
        /\ result.err = NoError => NRows(result.data) = 1
        /\ (result.data # EmptyFrame /\ NRows(result.data) # 1) =>
              result.err = ValueError("Can only transpose an export of exactly one row")
        /\ result.err = NoError => sink = ExpectedTransposed(result.data)

C10_Witness ==
    /\ result.op = "export_to_csv_transposed" /\ result.err = NoError
    /\ cfg.csv_export_disclaimer_text # None
    /\ Len(sink) = Len(cfg.variables) + 2

\* The line of the file where the header row stands.
HeaderLine == IF cfg.csv_export_disclaimer_text = None THEN 1 ELSE 2

CsvExported == result.op = "export_to_csv" /\ result.err = NoError

\* The header row is the schema oids and the body has one line per table row.
CsvShape ==
    /\ Len(sink) = HeaderLine + NRows(result.data)
    /\ sink[HeaderLine] = Oids
    /\ \A i \in 1..NRows(result.data) : Len(sink[HeaderLine + i]) = Len(Oids)

\* C11 as stated: the header row is the schema oids in schema order, the body
\* rows follow table order, and every body cell is the table's cell after
\* format_value ("Yes" and "No" written as "Y" and "N").
C11_CsvCellsFormatted ==
    CsvExported =>
        /\ CsvShape
        /\ \A i \in 1..NRows(result.data) : \A c \in DOMAIN Oids :
              sink[HeaderLine + i][c] = format_value(result.data.val[Oids[c]][i])

\* C11 amended: the header row is the schema oids in schema order, the body
\* rows follow table order, and every body cell is the table's string cell
\* written unchanged ("Yes" stays "Yes").
C11_CsvCellsUnchanged ==
    CsvExported =>
        /\ CsvShape
        /\ \A i \in 1..NRows(result.data) : \A c \in DOMAIN Oids :
              sink[HeaderLine + i][c] = result.data.val[Oids[c]][i]

C11_Witness ==
    /\ CsvExported /\ NRows(result.data) = 3
    /\ sink[HeaderLine + 1][4] = "Yes" /\ sink[HeaderLine + 2][4] = "No"
    /\ sink[HeaderLine + 3][4] = "10"

JsonExported == result.op = "export_to_json" /\ result.err = NoError

\* C12: in the document of export_to_json the items list the schema variables
\* in schema order, every itemData row lists that table row's cells in schema
\* order and so has as many cells as there are items, the itemData rows follow
\* table order, and records is the number of itemData rows.
C12_JsonDocument ==
    JsonExported =>
        /\ Len(result.doc.items) = Len(cfg.variables)
        /\ \A i \in DOMAIN cfg.variables :
              /\ result.doc.items[i].OID = <<"IT.", cfg.variables[i].oid>>
              /\ result.doc.items[i].name = cfg.variables[i].name
        /\ Len(result.doc.itemData) = NRows(result.data)
        /\ \A r \in 1..NRows(result.data) :
              /\ Len(result.doc.itemData[r]) = Len(result.doc.items)
              /\ \A c \in DOMAIN cfg.variables :
                    result.doc.itemData[r][c] = result.data.val[cfg.variables[c].oid][r]
        /\ result.doc.records = Len(result.doc.itemData)

C12_Witness ==
    /\ JsonExported /\ result.doc.records = 3
    /\ Len(result.doc.items) = 7
    /\ result.data.index # <<0, 1, 2>>
    /\ result.doc.itemData[1][4] # result.doc.itemData[3][4]

\* C13: when an export call starts, the node cache holds nothing but the root,
\* as it did after construction: no node recorded by an earlier call.
C13_CacheFresh == Idle => _node_cache = _initialize_node_cache(root)

\* The chain from the topmost ancestor down to n, n included.
RECURSIVE Ancestry(_)
Ancestry(n) == IF n = NoneNode THEN <<>> ELSE Append(Ancestry(parent[n]), n)

\* The first and the last node of a chain that return column k.
Shallowest(chain, k) ==
    chain[CHOOSE i \in DOMAIN chain :
              /\ Has(visit[chain[i]], k)
              /\ \A j \in 1..(i - 1) : ~Has(visit[chain[j]], k)]
Deepest(chain, k) ==
    chain[CHOOSE i \in DOMAIN chain :
              /\ Has(visit[chain[i]], k)
              /\ \A j \in (i + 1)..Len(chain) : ~Has(visit[chain[j]], k)]
OnChain(chain, k) == \E i \in DOMAIN chain : Has(visit[chain[i]], k)

\* The schema columns that post-processing leaves as the traversal made them.
TraversalColumns ==
    {k \in Range(Oids) : /\ ~Has(cfg.constants, k) /\ k # cfg.domain_variable
                         /\ k \notin AnnotatorTargets}

RowOfLabel(T, l) == CHOOSE r \in 1..NRows(T) : T.index[r] = l

\* C14: in a full export in which every leaf has its row, the row of a leaf
\* carries, in every column that nodes on the leaf's path from the root
\* returned, the value of the node of that path closest to the root.
C14_ShallowestWins ==
    (Succeeded /\ FullExport /\ NRows(result.data) = Len(LeafSeq(root))) =>
        \A i \in DOMAIN LeafSeq(root) : \A k \in TraversalColumns :
            LET chain == Ancestry(LeafSeq(root)[i])
            IN  OnChain(chain, k) =>
                    result.data.val[k][RowOfLabel(result.data, i - 1)]
                        = visit[Shallowest(chain, k)].val[k]

C14_Witness ==
    /\ Succeeded /\ FullExport /\ NRows(result.data) = 3
    /\ \A l \in LeavesUnder(root) : Has(visit[l], "VALUE")
    /\ \E q \in Participants : Has(visit[q], "VALUE") /\ Has(visit[q], "STUDY_NAME")
    /\ AllCells(result.data, "VALUE", "p")
    /\ AllCells(result.data, "STUDY_NAME", "Test Name")

\* The columns that neither the exported node nor a node below it returns.
InheritedOnly(n, k) == \A m \in Descendants(n) : ~Has(visit[m], k)

\* C15 as stated: in a subtree export, a column that only ancestors of the
\* exported node return carries, in every row, the value of the deepest
\* ancestor that returns it.
C15_DeeperAncestorWins ==
    (Succeeded /\ ~FullExport) =>
        \A k \in TraversalColumns :
            LET chain == Ancestry(parent[result.subtree_node])
            IN  (OnChain(chain, k) /\ InheritedOnly(result.subtree_node, k)) =>
                    AllCells(result.data, k, visit[Deepest(chain, k)].val[k])

\* C15 amended: in a subtree export, a column that only ancestors of the
\* exported node return carries, in every row, the value of the shallowest
\* ancestor that returns it, as the broadcast of the full traversal has it.
C15_ShallowerAncestorWins ==
    (Succeeded /\ ~FullExport) =>
        \A k \in TraversalColumns :
            LET chain == Ancestry(parent[result.subtree_node])
            IN  (OnChain(chain, k) /\ InheritedOnly(result.subtree_node, k)) =>
                    AllCells(result.data, k, visit[Shallowest(chain, k)].val[k])

C15_Witness ==
    /\ Succeeded /\ result.subtree_node.type = "Input" /\ NRows(result.data) = 1
    /\ Has(visit[parent[result.subtree_node]], "STUDY_NAME")
    /\ visited = Ancestry(result.subtree_node)
    /\ result.data.val["STUDY_NAME"][1] = "Test Name"

Branching(n) == n # NoneNode /\ _node_structure[n.type].child # "None"
Childless(n) == Branching(n) /\ \A m \in Nodes : parent[m] # n

\* C16: a branching node without children yields a table of no rows and no
\* columns, whatever context it inherits; its parent's table is what it would
\* be without that node (no row added, no row-count error caused), and its own
\* subtree export, when it completes, has no rows.
C16_ChildlessBranch ==
    result.op = "export" =>
        \A b \in {n \in Range(visited) : Childless(n)} :
            /\ \A extra \in {EmptyDict, visit[root]} :
                  /\ _export(b, extra).err = NoError
                  /\ _export(b, extra).data = EmptyDict
            /\ b # result.subtree_node =>
                  LET ch == _get_children(parent[b])
                      others == SelectSeq(ch, LAMBDA c : c # b)
                      with == _export_list(ch, 1, EmptyDict, <<>>)
                      without == _export_list(others, 1, EmptyDict, <<>>)
                  IN  /\ with.err = without.err
                      /\ with.data = without.data
                      /\ with.row_count = without.row_count
            /\ (b = result.subtree_node /\ result.err = NoError) =>
                  NRows(result.data) = 0

C16_Witness ==
    /\ result.op = "export" /\ Succeeded /\ FullExport
    /\ \E b \in Range(visited) : Childless(b)
    /\ NRows(result.data) = 3

\* How many of the inputs of participant q return column k, the columns its
\* inputs return and the rows its table has when the lengths agree.
LeafLen(q, k) == Cardinality({c \in Inputs : parent[c] = q /\ Has(visit[c], k)})
LeafCols(q) == {k \in {"VALUE", "UNIT", "EXTRA", "CONST"} : LeafLen(q, k) > 0}
Ragged(q) == \E k1, k2 \in LeafCols(q) : LeafLen(q, k1) # LeafLen(q, k2)
RowsOf(q) == IF LeafCols(q) = {} THEN 0 ELSE LeafLen(q, CHOOSE k \in LeafCols(q) : TRUE)
ColsOf(q) == IF LeafCols(q) = {} THEN {} ELSE LeafCols(q) \cup Range(visit[q].keys)

\* The length column k has once the tables of the participants of s are joined.
RECURSIVE JoinedLen(_, _)
JoinedLen(qs, k) ==
    IF qs = {} THEN 0
    ELSE LET q == CHOOSE x \in qs : TRUE
         IN  (IF k \in ColsOf(q) THEN RowsOf(q) ELSE 0) + JoinedLen(qs \ {q}, k)
ChildrenOf(n) == {m \in Nodes : parent[m] = n}
JoinedCols(s) == UNION {ColsOf(q) : q \in ChildrenOf(s)}
RaggedJoin(s) ==
    \E k1, k2 \in JoinedCols(s) :
        JoinedLen(ChildrenOf(s), k1) # JoinedLen(ChildrenOf(s), k2)

\* The traversal of the call meets an aggregation whose columns differ in length.
MeetsRagged ==
    IF FullExport
    THEN (\E q \in ChildrenOf(root) : Ragged(q)) \/ RaggedJoin(root)
    ELSE /\ result.subtree_node.type = "Participant"
         /\ TopAncestor(result.subtree_node) = root
         /\ Ragged(result.subtree_node)

\* C17: a call whose traversal aggregates children's tables into columns of
\* different lengths fails with the row-count error and returns no table.
C17_RaggedFails ==
    (Done /\ cfg.domain # None /\ cfg.domain_variable # None /\ cfg.label # None
          /\ MeetsRagged) =>
        /\ result.err = ValueError("Sibling nodes have differing row counts")
        /\ result.data = EmptyFrame /\ result.doc = NoDoc
        /\ sink \in {<<>>, _write_csv_disclaimer}

C17_Witness ==
    /\ result.op = "export" /\ FullExport
    /\ result.err = ValueError("Sibling nodes have differing row counts")
    /\ \E c, d \in Inputs :
          /\ parent[c] = parent[d] /\ parent[parent[c]] = root
          /\ visit[c].keys = <<"VALUE", "UNIT">> /\ visit[d].keys = <<"UNIT">>
    /\ ~RaggedJoin(root)

\* The leaves under n whose visitor returns at least one column: each has a
\* table of one row, the others a table of no rows.
RowLeaves(n) == {l \in LeavesUnder(n) : visit[l].keys # <<>>}

\* C20: an export that completes has as many rows as the tables of the leaves
\* it aggregated have together: rows of different children are never merged
\* into one row.
C20_RowsConcatenated ==
    (Succeeded /\ (FullExport \/ result.subtree_node.type = "Participant")) =>
        NRows(result.data) =
            Cardinality(RowLeaves(IF FullExport THEN root ELSE result.subtree_node))

\* The cache as it stands once the first i visits of a log are recorded on
\* top of the cache the call started with.
CacheAt(cache0, log, i) ==
    [t \in Types |->
        IF \E j \in 1..i : log[j].type = t
        THEN log[CHOOSE j \in 1..i : /\ log[j].type = t
                                     /\ \A h \in (j + 1)..i : log[h].type # t]
        ELSE cache0[t]]

\* C18: in every call that runs alone, when the visitor of a node runs the
\* cache holds, for the node's own type and for the type of each of its
\* ancestors, that node and that ancestor; the cache the call leaves is the
\* one its last visit made.
C18_AncestorsCached ==
    [][/\ \A i \in DOMAIN visited' :
             \A a \in Range(Ancestry(visited'[i])) :
                 CacheAt(_node_cache, visited', i)[a.type] = a
       /\ visited' # <<>> =>
             _node_cache' = CacheAt(_node_cache, visited', Len(visited'))]_vars

C18_Witness ==
    /\ Succeeded /\ result.subtree_node = Node("Input", 3)
    /\ parent[result.subtree_node] = Node("Participant", 2)
    /\ visited = Ancestry(result.subtree_node)
    /\ _node_cache["Participant"] = Node("Participant", 2)
    /\ _node_cache["Input"] = Node("Input", 3)

\* The visitor that caller c ran last read from the cache, for the type of the
\* visited node or of one of its ancestors, some other node.
ReadsForeign(c) ==
    /\ calls[c].at # NoneNode
    /\ \E a \in Range(Ancestry(calls[c].at)) : calls[c].got[a.type] # a

\* The nodes caller c has visited in the call it has in progress.
VisitedBy(c) ==
    {calls[c].log[i] : i \in 1..(Len(calls[c].log) - Len(calls[c].todo))}

\* C19: a visitor reads from the cache a node that is not the visited node's
\* ancestor only in a call that another call has interleaved with; the witness
\* is an interleaving in which it does, the node being one the other call
\* recorded.
C19_ForeignOnlyWhenInterleaved ==
    \A c \in Callers : ReadsForeign(c) => calls[c].crossed

C19_Witness ==
    \E c, d \in Callers :
        /\ c # d /\ calls[c].at # NoneNode /\ calls[c].crossed
        /\ \E a \in Range(Ancestry(calls[c].at)) :
              /\ calls[c].got[a.type] # a
              /\ calls[c].got[a.type] \in VisitedBy(d)
              /\ calls[c].got[a.type] \notin Range(Ancestry(calls[c].at))
              /\ calls[c].got[a.type] \notin VisitedBy(c)

CsvRaised ==
    /\ result.op \in {"export_to_csv", "export_to_csv_transposed"}
    /\ result.err # NoError

\* C21: when export_to_csv raises, plain or transposed, the file holds no
\* header line and no data line: it is empty, or holds the disclaimer line
\* alone when a disclaimer is configured.
C21_NothingWrittenOnError ==
    CsvRaised =>
        IF cfg.csv_export_disclaimer_text = None THEN sink = <<>>
        ELSE sink = << <<cfg.csv_export_disclaimer_text>> >>

C21_Witness ==
    /\ result.op = "export_to_csv_transposed"
    /\ result.err = ValueError("Can only transpose an export of exactly one row")
    /\ NRows(result.data) = 3
    /\ sink = << <<"Test disclaimer">> >>

====
